---- MODULE Spec2Model ----
(***************************************************************************)
(* A model of circle-draw-benchmark (main.py): OverlapTask, SVGEvaluator   *)
(* (_extract_svg, _parse_svg, check_overlaps) and the way main() chains    *)
(* them.                                                                   *)
(*                                                                         *)
(* Text is modelled as a sequence of lexemes (tokens), each standing for   *)
(* a fixed piece of text:                                                  *)
(*   [k |-> "lt",    n |-> name]   "<name"      start of an opening tag    *)
(*   [k |-> "xmlns", n |-> q]      ' xmlns="u"' (q = "dq") or " xmlns='u'" *)
(*   [k |-> "gt",    n |-> ""]     ">"                                     *)
(*   [k |-> "sgt",   n |-> ""]     "/>"                                    *)
(*   [k |-> "close", n |-> name]   "</name>"                               *)
(*   [k |-> "text",  n |-> s]      character data s ("ws" is whitespace)   *)
(*   [k |-> "circle", cx, cy, r, fill]  "<circle cx=.. cy=.. r=.. fill=../>"*)
(* An attribute of a circle token is <<>> when absent and <<v>> when       *)
(* present with value v.  Colour names are sequences of character codes,   *)
(* so that lower() and the string order used by sorted() are computed.     *)
(* Floats are modelled by integers; x**2 raises OverflowError beyond       *)
(* SqrtMaxFloat, as Python's float power does beyond sqrt(DBL_MAX).        *)
(***************************************************************************)
EXTENDS Integers, Sequences, FiniteSets, TLC

VARIABLES
    num_circles,        \* argument of OverlapTask(...)
    overlaps_arg,       \* argument overlaps_needed of OverlapTask(...): a list of pairs
    text,               \* the candidate text given to SVGEvaluator(...)
    hashseed,           \* the process's string-hash seed (fixes set iteration order)
    pc,                 \* position in main()'s pipeline
    task,               \* the OverlapTask object: [circles, overlaps_needed]
    svg_text,           \* SVGEvaluator.svg_text
    circles,            \* SVGEvaluator.circles
    parse_error,        \* SVGEvaluator.parse_error
    required_overlaps,  \* check_overlaps argument
    all_required_colors,\* check_overlaps argument
    idx,                \* position of the loop in itertools.combinations(circles, 2)
    detected_overlaps,  \* check_overlaps local
    examined,           \* history: the index pairs the loop has taken so far
    compared,           \* history: the index pairs whose comparison (line 99) ran
    added,              \* history: the index pairs for which line 102 ran
    result,             \* what the last check_overlaps call returned or raised
    calls,              \* number of check_overlaps calls started
    prev_result         \* result of the previous call

vars == <<num_circles, overlaps_arg, text, hashseed, pc, task, svg_text, circles,
          parse_error, required_overlaps, all_required_colors, idx,
          detected_overlaps, examined, compared, added, result, calls, prev_result>>

(***************************************************************************)
(* Bounds of the model.                                                    *)
(***************************************************************************)
MaxLen == 5          \* longest candidate text (in tokens) of the text family
MaxCircles == 3      \* most circle elements in a generated document
MaxPairs == 2        \* longest overlaps_needed list given to OverlapTask
MaxCalls == 2        \* check_overlaps calls on one evaluator
MaxSeed == 1         \* hash seeds 0..MaxSeed
SqrtMaxFloat == 100  \* stands for sqrt(DBL_MAX): |x| beyond it makes x**2 overflow
Huge == 1000         \* the float read from the literal "1e200"

(***************************************************************************)
(* Strings as character codes.                                             *)
(***************************************************************************)
Red    == <<82, 101, 100>>
Blue   == <<66, 108, 117, 101>>
Green  == <<71, 114, 101, 101, 110>>
Yellow == <<89, 101, 108, 108, 111, 119>>
Purple == <<80, 117, 114, 112, 108, 101>>
Orange == <<79, 114, 97, 110, 103, 101>>
red    == <<114, 101, 100>>
blue   == <<98, 108, 117, 101>>
RED    == <<82, 69, 68>>
black  == <<98, 108, 97, 99, 107>>

\* str.lower() on ASCII text
Lower(s) == [i \in 1..Len(s) |-> IF s[i] \in 65..90 THEN s[i] + 32 ELSE s[i]]

\* a < b in Python's string order (lexicographic on code points)
RECURSIVE StrLess(_, _)
StrLess(a, b) ==
    IF b = <<>> THEN FALSE
    ELSE IF a = <<>> THEN TRUE
    ELSE IF Head(a) # Head(b) THEN Head(a) < Head(b)
    ELSE StrLess(Tail(a), Tail(b))

\* tuple(sorted([a, b]))
SortedPair(a, b) == IF StrLess(b, a) THEN <<b, a>> ELSE <<a, b>>

\* a < b in Python's tuple order, for pairs of strings
PairLess(p, q) == \/ StrLess(p[1], q[1])
                  \/ p[1] = q[1] /\ StrLess(p[2], q[2])

(***************************************************************************)
(* Tokens.                                                                 *)
(***************************************************************************)
Lt(name)    == [k |-> "lt", n |-> name]
Xmlns(q)    == [k |-> "xmlns", n |-> q]
Gt          == [k |-> "gt", n |-> ""]
Sgt         == [k |-> "sgt", n |-> ""]
Close(name) == [k |-> "close", n |-> name]
Text(s)     == [k |-> "text", n |-> s]
Circle(cx, cy, r, fill) == [k |-> "circle", cx |-> cx, cy |-> cy, r |-> r, fill |-> fill]

\* re.IGNORECASE on the tag names the model uses
FoldName(name) == IF name \in {"svg", "SVG", "Svg"} THEN "svg" ELSE name

\* the token's text contains the character '>' (and then ends with it)
HasGt(t) == t.k \in {"gt", "sgt", "close", "circle"}
\* the token's text starts with "<svg", case-insensitively
IsOpenSvg(t) == t.k = "lt" /\ FoldName(t.n) = "svg"
\* the token's text is "</svg>", case-insensitively
IsCloseSvg(t) == t.k = "close" /\ FoldName(t.n) = "svg"

(***************************************************************************)
(* SVGEvaluator._extract_svg: re.search(r'<svg.*?>.*?</svg>', text,        *)
(* DOTALL | IGNORECASE).  From a start position i the lazy quantifiers     *)
(* take the first '>' after "<svg" and then the first "</svg>" after it;   *)
(* search takes the leftmost i from which that succeeds.                   *)
(***************************************************************************)
\* the least element of a set of positions, 0 when there is none
First(hits) == IF hits = {} THEN 0 ELSE CHOOSE j \in hits : \A h \in hits : j <= h

\* the greatest element of a set of positions, 0 when there is none
Last(hits) == IF hits = {} THEN 0 ELSE CHOOSE j \in hits : \A h \in hits : j >= h

GreedyCloseAfter(s, g) == Last({j \in g + 1..Len(s) : IsCloseSvg(s[j])})

\* '.*?</svg>' after position g: the first closing tag
CloseAfter(s, g) == First({j \in g + 1..Len(s) : IsCloseSvg(s[j])})

\* end of the match that starts at i, or 0
MatchEnd(s, i) ==
    IF ~IsOpenSvg(s[i]) THEN 0
    ELSE LET g == First({j \in i + 1..Len(s) : HasGt(s[j])})
         IN IF g = 0 THEN 0 ELSE CloseAfter(s, g)

\* re.search: the leftmost start from which the pattern matches
RegexSearch(s) ==
    LET i == First({a \in 1..Len(s) : MatchEnd(s, a) # 0})
    IN IF i = 0 THEN <<>> ELSE <<i, MatchEnd(s, i)>>

extract_svg(s) ==
    LET m == RegexSearch(s)
    IN IF m # <<>> THEN SubSeq(s, m[1], m[2]) ELSE s

(***************************************************************************)
(* _parse_svg, line 67: re.sub(r'\sxmlns="[^"]+"', '', svg_text, count=1)  *)
(* removes the first double-quoted xmlns declaration.                      *)
(***************************************************************************)
IsDqXmlns(t) == t.k = "xmlns" /\ t.n = "dq"

strip_xmlns(s) ==
    LET j == First({i \in 1..Len(s) : IsDqXmlns(s[i])})
    IN IF j = 0 THEN s ELSE SubSeq(s, 1, j - 1) \o SubSeq(s, j + 1, Len(s))

(***************************************************************************)
(* ET.fromstring followed by root.findall(".//circle").  The scan keeps    *)
(*   stack : the default-namespace flags of the open elements (with their  *)
(*           names), innermost last                                        *)
(*   tag   : <<>> in content, <<[n, ns]>> inside the opening tag "<n ..."  *)
(*   root  : the document element has been seen                            *)
(*   out   : the circle elements found so far, in document order           *)
(* and ends in "error" on text that is not well-formed.  A circle in the   *)
(* scope of a default namespace has the tag "{u}circle" and is not found   *)
(* by ".//circle"; the document element itself is not a descendant.        *)
(***************************************************************************)
ParseError == "ParseError"

InNs(stack) == stack # <<>> /\ stack[Len(stack)].ns

RECURSIVE Scan(_, _, _, _, _, _)
Scan(s, i, stack, tag, root, out) ==
    IF i > Len(s)
    THEN IF tag = <<>> /\ stack = <<>> /\ root THEN out ELSE ParseError
    ELSE LET t == s[i] IN
      IF tag # <<>>
      THEN \* inside an opening tag
        CASE t.k = "xmlns" ->
               IF tag[1].ns THEN ParseError   \* duplicate attribute
               ELSE Scan(s, i + 1, stack, <<[n |-> tag[1].n, ns |-> TRUE]>>, root, out)
          [] t.k = "gt" ->
               Scan(s, i + 1,
                    Append(stack, [n |-> tag[1].n, ns |-> tag[1].ns \/ InNs(stack)]),
                    <<>>, TRUE, out)
          [] t.k = "sgt" -> Scan(s, i + 1, stack, <<>>, TRUE, out)
          [] t.k = "text" /\ t.n = "ws" -> Scan(s, i + 1, stack, tag, root, out)
          [] OTHER -> ParseError
      ELSE \* in content, or before or after the document element
        CASE t.k = "lt" ->
               IF stack = <<>> /\ root THEN ParseError
               ELSE Scan(s, i + 1, stack, <<[n |-> t.n, ns |-> FALSE]>>, root, out)
          [] t.k = "circle" ->
               IF stack = <<>>
               THEN IF root THEN ParseError ELSE Scan(s, i + 1, stack, tag, TRUE, out)
               ELSE Scan(s, i + 1, stack, tag, root,
                         IF InNs(stack) THEN out ELSE Append(out, t))
          [] t.k = "close" ->
               IF stack = <<>> \/ stack[Len(stack)].n # t.n THEN ParseError
               ELSE Scan(s, i + 1, SubSeq(stack, 1, Len(stack) - 1), tag, root, out)
          [] t.k = "text" /\ t.n = "ws" -> Scan(s, i + 1, stack, tag, root, out)
          [] OTHER -> \* character data: only inside an element
               IF stack = <<>> THEN ParseError
               ELSE Scan(s, i + 1, stack, tag, root, out)

\* the circle elements root.findall(".//circle") yields, or ParseError
findall_circle(s) == Scan(s, 1, <<>>, <<>>, FALSE, <<>>)

(***************************************************************************)
(* float(...) on the attribute literals the model uses; any other string   *)
(* raises ValueError.                                                      *)
(***************************************************************************)
NumericLiterals == {"0", "1", "2", "3", "4", "5", "6", "8", "-3", "1e200"}

float(v) ==
    CASE v = "0" -> 0 [] v = "1" -> 1 [] v = "2" -> 2 [] v = "3" -> 3
      [] v = "4" -> 4 [] v = "5" -> 5 [] v = "6" -> 6 [] v = "8" -> 8
      [] v = "-3" -> 0 - 3
      [] v = "1e200" -> Huge

\* float(child.attrib.get(name, 0)) raises ValueError
raises_ValueError(a) == a # <<>> /\ a[1] \notin NumericLiterals

\* float(child.attrib.get(name, 0))
attrib_float(a) == IF a = <<>> THEN 0 ELSE float(a[1])

\* child.attrib.get('fill', 'black').lower()
attrib_fill(a) == Lower(IF a = <<>> THEN black ELSE a[1])

\* a faulty variant, kept for comparison: the except clause aborts the loop instead of skipping the element
RECURSIVE parse_children_abort(_)
parse_children_abort(children) ==
    IF children = <<>> THEN <<>>
    ELSE LET child == Head(children) IN
         IF \/ raises_ValueError(child.cx)
            \/ raises_ValueError(child.cy)
            \/ raises_ValueError(child.r)
         THEN <<>>
         ELSE <<[color |-> attrib_fill(child.fill),
                 cx |-> attrib_float(child.cx),
                 cy |-> attrib_float(child.cy),
                 r |-> attrib_float(child.r)]>> \o parse_children_abort(Tail(children))

\* lines 70-79: the loop over root.findall(".//circle")
RECURSIVE parse_children(_)
parse_children(children) ==
    IF children = <<>> THEN <<>>
    ELSE LET child == Head(children) IN
         IF \/ raises_ValueError(child.cx)
            \/ raises_ValueError(child.cy)
            \/ raises_ValueError(child.r)
         THEN parse_children(Tail(children))       \* except ValueError: continue
         ELSE <<[color |-> attrib_fill(child.fill),
                 cx |-> attrib_float(child.cx),
                 cy |-> attrib_float(child.cy),
                 r |-> attrib_float(child.r)]>> \o parse_children(Tail(children))

\* SVGEvaluator._parse_svg: the circles and the parse_error it leaves
parse_svg(s) ==
    LET found == findall_circle(strip_xmlns(s))
    IN IF found = ParseError
       THEN [circles |-> <<>>, parse_error |-> TRUE]
       ELSE [circles |-> parse_children(found), parse_error |-> FALSE]

(***************************************************************************)
(* OverlapTask.__init__                                                    *)
(***************************************************************************)
colors == <<Red, Blue, Green, Yellow, Purple, Orange>>

\* a faulty variant, kept for comparison: num_circles >= len(self.colors)
too_many_off_by_one(n) == n >= Len(colors)

\* line 21
too_many(n) == n > Len(colors)

\* line 24: [self.colors[i] for i in range(num_circles)]
task_circles(n) == [i \in 1..n |-> colors[i]]

\* line 25: set(tuple(sorted(pair)) for pair in overlaps_needed)
task_overlaps(pairs) == {SortedPair(pairs[i][1], pairs[i][2]) : i \in 1..Len(pairs)}

(***************************************************************************)
(* check_overlaps                                                          *)
(***************************************************************************)
\* itertools.combinations(range(1, n + 1), 2), in the order it yields them
RECURSIVE combinations_from(_, _, _)
combinations_from(i, j, n) ==
    IF i >= n THEN <<>>
    ELSE IF j > n THEN combinations_from(i + 1, i + 2, n)
    ELSE <<(<<i, j>>)>> \o combinations_from(i, j + 1, n)

combinations(n) == combinations_from(1, 2, n)

Abs(x) == IF x < 0 THEN 0 - x ELSE x

\* float addition: exact on the model's small values, and a value of the
\* magnitude of Huge absorbs a small one (1e200 + 3.0 == 1e200)
fadd(a, b) ==
    IF Abs(a) >= Huge /\ Abs(b) <= SqrtMaxFloat THEN a
    ELSE IF Abs(b) >= Huge /\ Abs(a) <= SqrtMaxFloat THEN b
    ELSE a + b

fsub(a, b) == fadd(a, 0 - b)

\* line 95: one of the two x**2 raises OverflowError
pow_overflows(c1, c2) ==
    \/ Abs(fsub(c1.cx, c2.cx)) > SqrtMaxFloat
    \/ Abs(fsub(c1.cy, c2.cy)) > SqrtMaxFloat

\* lines 95-99: dist < radius_sum, with dist = sqrt(d2) >= 0
overlaps(c1, c2) ==
    LET dx == fsub(c1.cx, c2.cx)
        dy == fsub(c1.cy, c2.cy)
        d2 == dx * dx + dy * dy
        radius_sum == fadd(c1.r, c2.r)
    IN radius_sum > 0 /\ d2 < radius_sum * radius_sum

\* line 101
color_pair(c1, c2) == SortedPair(c1.color, c2.color)

\* a faulty variant, kept for comparison: lowercased but not sorted again
req_lower_unsorted(req) == {<<Lower(p[1]), Lower(p[2])>> : p \in req}

\* line 112
req_lower(req) == {SortedPair(Lower(p[1]), Lower(p[2])) : p \in req}

\* list(a set of pairs): the iteration order of a set is fixed by the hashes of
\* its elements, that is by the process's hash seed; modelled as the sorted
\* order rotated by the seed
RECURSIVE sorted_pairs(_)
sorted_pairs(S) ==
    IF S = {} THEN <<>>
    ELSE LET m == CHOOSE p \in S : \A q \in S : p = q \/ PairLess(p, q)
         IN <<m>> \o sorted_pairs(S \ {m})

rotate(seq, by) ==
    IF seq = <<>> THEN seq
    ELSE LET r == by % Len(seq)
         IN SubSeq(seq, r + 1, Len(seq)) \o SubSeq(seq, 1, r)

\* a faulty variant, kept for comparison: an order that changes from call to call
list_per_call(S) == rotate(sorted_pairs(S), hashseed + calls)

list(S) == rotate(sorted_pairs(S), hashseed)

\* f"{a}/{b}"
ratio(a, b) == ToString(a) \o "/" \o ToString(b)

\* lines 104-134
scores(detected, req, cols) ==
    LET lowered == req_lower(req)
        true_positives == detected \cap lowered
        false_positives == detected \ lowered
        false_negatives == lowered \ detected
    IN [metric_circle_count |-> ratio(Len(circles), Len(cols)),
        metric_correct_overlaps_found |->
            ratio(Cardinality(true_positives), Cardinality(lowered)),
        metric_incorrect_overlaps_made |-> Cardinality(false_positives),
        details |-> [found_pairs |-> list(detected),
                     missed_pairs |-> list(false_negatives),
                     hallucinated_pairs |-> list(false_positives)]]

InvalidSvg == [error |-> "Invalid SVG XML"]
Raised(e) == [exception |-> e]
NoResult == [pending |-> TRUE]

(***************************************************************************)
(* The pipeline of main(): task = OverlapTask(...), evaluator =            *)
(* SVGEvaluator(text), evaluator.check_overlaps(task.overlaps_needed,      *)
(* task.circles); check_overlaps may be called again on the evaluator.     *)
(***************************************************************************)
MakeTask ==
    /\ pc = "start"
    /\ IF too_many(num_circles)
       THEN /\ task' = Raised("ValueError")
            /\ pc' = "config_error"
       ELSE /\ task' = [circles |-> task_circles(num_circles),
                        overlaps_needed |-> task_overlaps(overlaps_arg)]
            /\ pc' = "task"
    /\ UNCHANGED <<num_circles, overlaps_arg, text, hashseed, svg_text, circles,
                   parse_error, required_overlaps, all_required_colors, idx,
                   detected_overlaps, examined, compared, added, result, calls, prev_result>>

\* SVGEvaluator.__init__
Construct ==
    /\ pc = "task"
    /\ svg_text' = extract_svg(text)
    /\ circles' = parse_svg(extract_svg(text)).circles
    /\ parse_error' = parse_svg(extract_svg(text)).parse_error
    /\ pc' = "ready"
    /\ UNCHANGED <<num_circles, overlaps_arg, text, hashseed, task,
                   required_overlaps, all_required_colors, idx,
                   detected_overlaps, examined, compared, added, result, calls, prev_result>>

\* check_overlaps, lines 83-91: entry, the parse_error exit, the locals
CallCheck ==
    /\ pc = "ready"
    /\ calls' = calls + 1
    /\ required_overlaps' = task.overlaps_needed
    /\ all_required_colors' = task.circles
    /\ IF parse_error
       THEN /\ result' = InvalidSvg
            /\ pc' = "returned"
            /\ UNCHANGED <<idx, detected_overlaps, examined, compared, added>>
       ELSE /\ result' = NoResult
            /\ detected_overlaps' = {}
            /\ idx' = 1
            /\ examined' = <<>>
            /\ compared' = <<>>
            /\ added' = {}
            /\ pc' = "loop"
    /\ UNCHANGED <<num_circles, overlaps_arg, text, hashseed, task, svg_text,
                   circles, parse_error, prev_result>>

\* check_overlaps, lines 94-102: one iteration of the loop over the pairs
LoopStep ==
    /\ pc = "loop"
    /\ idx <= Len(combinations(Len(circles)))
    /\ LET pair == combinations(Len(circles))[idx]
           c1 == circles[pair[1]]
           c2 == circles[pair[2]]
       IN /\ examined' = Append(examined, pair)
          /\ IF pow_overflows(c1, c2)
             THEN /\ result' = Raised("OverflowError")
                  /\ pc' = "raised"
                  /\ UNCHANGED <<idx, detected_overlaps, compared, added>>
             ELSE /\ compared' = Append(compared, pair)
                  /\ detected_overlaps' =
                        IF overlaps(c1, c2)
                        THEN detected_overlaps \cup {color_pair(c1, c2)}
                        ELSE detected_overlaps
                  /\ added' = IF overlaps(c1, c2) THEN added \cup {pair} ELSE added
                  /\ idx' = idx + 1
                  /\ UNCHANGED <<result, pc>>
    /\ UNCHANGED <<num_circles, overlaps_arg, text, hashseed, task, svg_text,
                   circles, parse_error, required_overlaps, all_required_colors,
                   calls, prev_result>>

\* check_overlaps, lines 104-134: the scores and the return
Finish ==
    /\ pc = "loop"
    /\ idx > Len(combinations(Len(circles)))
    /\ result' = scores(detected_overlaps, required_overlaps, all_required_colors)
    /\ pc' = "returned"
    /\ UNCHANGED <<num_circles, overlaps_arg, text, hashseed, task, svg_text,
                   circles, parse_error, required_overlaps, all_required_colors,
                   idx, detected_overlaps, examined, compared, added, calls, prev_result>>

\* the caller scores the same evaluator again
Again ==
    /\ pc \in {"returned", "raised"}
    /\ calls < MaxCalls
    /\ prev_result' = result
    /\ pc' = "ready"
    /\ UNCHANGED <<num_circles, overlaps_arg, text, hashseed, task, svg_text,
                   circles, parse_error, required_overlaps, all_required_colors,
                   idx, detected_overlaps, examined, compared, added, result, calls>>

Next == MakeTask \/ Construct \/ CallCheck \/ LoopStep \/ Finish \/ Again

(***************************************************************************)
(* Inputs.                                                                 *)
(***************************************************************************)
\* nothing constructed yet
Start ==
    /\ pc = "start"
    /\ task = NoResult
    /\ svg_text = <<>>
    /\ circles = <<>>
    /\ parse_error = FALSE
    /\ required_overlaps = {}
    /\ all_required_colors = <<>>
    /\ idx = 0
    /\ detected_overlaps = {}
    /\ examined = <<>>
    /\ compared = <<>>
    /\ added = {}
    /\ result = NoResult
    /\ calls = 0
    /\ prev_result = NoResult

InitWith(ns, lists, texts, seeds) ==
    /\ num_circles \in ns
    /\ overlaps_arg \in lists
    /\ text \in texts
    /\ hashseed \in seeds
    /\ Start

\* all sequences over S of length at most n
SeqsUpTo(S, n) == UNION {[1..m -> S] : m \in 0..n}

\* "<svg>" body "</svg>"
Svg(body) == <<Lt("svg"), Gt>> \o body \o <<Close("svg")>>

\* the circle elements of the scoring family: centres (0,0), (3,0), (3,4)
ScoreCircles ==
    { Circle(<<"0">>, <<>>, <<"2">>, <<Red>>),
      Circle(<<"3">>, <<"4">>, <<"3">>, <<blue>>),
      Circle(<<"3">>, <<>>, <<"2">>, <<RED>>),
      Circle(<<"1e200">>, <<>>, <<"1e200">>, <<>>),
      Circle(<<>>, <<>>, <<"1e200">>, <<blue>>) }

ScoreDocs == {Svg(body) : body \in SeqsUpTo(ScoreCircles, MaxCircles)}

EdgeDocs ==
    { <<Lt("svg"), Gt, Circle(<<>>, <<>>, <<>>, <<>>)>>,
      <<Text("fence")>> \o Svg(<<Circle(<<"0">>, <<>>, <<"2">>, <<Red>>)>>) \o <<Text("fence")>> }

ScoreLists ==
    { <<>>, <<(<<Red, Blue>>)>>, <<(<<blue, RED>>), (<<Red, Red>>)>> }

Init == InitWith({2, Len(colors) + 1}, ScoreLists, ScoreDocs \cup EdgeDocs, 0..MaxSeed)

Spec == Init /\ [][Next]_vars

(***************************************************************************)
(* The text family: every text of at most MaxLen tokens over TextAlphabet, *)
(* taken through OverlapTask(...) and SVGEvaluator(text).                  *)
(***************************************************************************)
TextAlphabet ==
    { Lt("svg"), Gt, Close("svg"), Close("SVG"), Text("fence"),
      Circle(<<>>, <<>>, <<>>, <<>>) }

InitText == InitWith({2}, {<<>>}, SeqsUpTo(TextAlphabet, MaxLen), {0})

NextText == MakeTask \/ Construct

SpecText == InitText /\ [][NextText]_vars

\* the number of characters of a token's text
CharLen(t) ==
    CASE t.k = "lt" -> 4
      [] t.k = "gt" -> 1
      [] t.k = "sgt" -> 2
      [] t.k = "close" -> 6
      [] t.k = "xmlns" -> 10
      [] t.k = "text" -> 3
      [] t.k = "circle" -> 9

RECURSIVE TextLen(_)
TextLen(s) == IF s = <<>> THEN 0 ELSE CharLen(Head(s)) + TextLen(Tail(s))

\* text[i..k] starts with "<svg", has a '>' after it and ends with "</svg>"
\* (case-insensitively): the substrings the pattern <svg.*>.*</svg> matches
IsMatch(s, i, k) ==
    /\ 1 <= i /\ i < k /\ k <= Len(s)
    /\ IsOpenSvg(s[i])
    /\ IsCloseSvg(s[k])
    /\ \E j \in i + 1..k - 1 : HasGt(s[j])

HasMatch(s) == \E i, k \in 1..Len(s) : IsMatch(s, i, k)

\* C8 as stated: _extract_svg returns the shortest substring of the text that
\* starts with an opening svg tag and ends with a closing svg tag, and the text
\* itself when there is none.
C8_ShortestSubstring ==
    pc = "ready" =>
        IF ~HasMatch(text) THEN svg_text = text
        ELSE \E i, k \in 1..Len(text) :
                /\ IsMatch(text, i, k)
                /\ svg_text = SubSeq(text, i, k)
                /\ \A i2, k2 \in 1..Len(text) :
                      IsMatch(text, i2, k2) =>
                          TextLen(svg_text) <= TextLen(SubSeq(text, i2, k2))

\* C8 amended: _extract_svg returns the match that starts leftmost, and of the
\* matches starting there the shortest one (it ends at the first closing tag
\* after the opening tag's '>'); the text itself when nothing matches.
C8_LeftmostLazy ==
    pc = "ready" =>
        IF ~HasMatch(text) THEN svg_text = text
        ELSE \E i, k \in 1..Len(text) :
                /\ IsMatch(text, i, k)
                /\ svg_text = SubSeq(text, i, k)
                /\ \A i2, k2 \in 1..Len(text) :
                      IsMatch(text, i2, k2) => i <= i2 /\ (i2 = i => k <= k2)

\* a text with commentary around the fragment and a later closing tag
C8_Witness ==
    /\ pc = "ready"
    /\ svg_text # text
    /\ \E i, k, k2 \in 1..Len(text) :
          IsMatch(text, i, k) /\ IsMatch(text, i, k2) /\ k < k2
                              /\ svg_text = SubSeq(text, i, k)

(***************************************************************************)
(* The task family: OverlapTask(n, pairs) alone, for every count from -1   *)
(* to MaxN and every list of at most MaxPairs pairs.                       *)
(***************************************************************************)
MaxN == 8

TaskPairs == { <<Red, Blue>>, <<Blue, Red>>, <<Green, Red>>, <<Red, Red>> }

InitTask == InitWith(-1..MaxN, SeqsUpTo(TaskPairs, MaxPairs), {<<>>}, {0})

NextTask == MakeTask

SpecTask == InitTask /\ [][NextTask]_vars

(***************************************************************************)
(* The parse family: documents "<svg>" body "</svg>" whose body has at     *)
(* most MaxBody tokens, circle elements with numeric, absent and           *)
(* non-numeric attributes and the tags of a nested "g" element; and three  *)
(* fixed documents with namespace declarations or no svg element.          *)
(***************************************************************************)
MaxBody == 4

GoodCircle    == Circle(<<"1">>, <<"2">>, <<"3">>, <<Red>>)
BareCircle    == Circle(<<>>, <<>>, <<>>, <<>>)
BadRCircle    == Circle(<<"4">>, <<>>, <<"x">>, <<blue>>)
BadCxCircle   == Circle(<<"">>, <<"5">>, <<"6">>, <<>>)

ParseAlphabet ==
    { GoodCircle, BareCircle, BadRCircle, BadCxCircle, Lt("g"), Gt, Close("g") }

ParseDocs ==
    {Svg(body) : body \in SeqsUpTo(ParseAlphabet, MaxBody)}
    \cup { <<Lt("svg"), Xmlns("dq"), Gt, GoodCircle, BadRCircle, BareCircle, Close("svg")>>,
           <<Lt("svg"), Xmlns("sq"), Gt, GoodCircle, BadRCircle, BareCircle, Close("svg")>>,
           <<Lt("g"), Gt, BadRCircle, GoodCircle, Close("g")>> }

InitParse == InitWith({2}, {<<>>}, ParseDocs, {0})

NextParse == MakeTask \/ Construct

SpecParse == InitParse /\ [][NextParse]_vars

(***************************************************************************)
(* The matching family: required pairs in both orders and mixed case,      *)
(* against documents of at most MaxDrawn circles with mixed-case fills.    *)
(* (0,0) r 2 and (3,0) r 2 overlap; (3,4) r 3 touches the first and        *)
(* overlaps the second; (8,0) r 2 touches or misses all of them.           *)
(***************************************************************************)
MaxDrawn == 2

RequiredPairs == { <<Red, blue>>, <<blue, Red>>, <<Blue, RED>>, <<red, Red>> }

DrawnCircles ==
    { Circle(<<"0">>, <<>>, <<"2">>, <<Red>>),
      Circle(<<"3">>, <<>>, <<"2">>, <<blue>>),
      Circle(<<"3">>, <<"4">>, <<"3">>, <<RED>>),
      Circle(<<"8">>, <<>>, <<"2">>, <<Blue>>) }

InitRequired ==
    InitWith({2}, SeqsUpTo(RequiredPairs, MaxPairs),
             {Svg(body) : body \in SeqsUpTo(DrawnCircles, MaxDrawn)}, {0})

SpecRequired == InitRequired /\ [][Next]_vars

(***************************************************************************)
(* What the claims speak of.                                               *)
(***************************************************************************)
\* a check_overlaps call has ended, by a return or by an exception
Done == pc \in {"returned", "raised"}

\* the value is the full metrics record
IsMetrics(res) ==
    DOMAIN res = {"metric_circle_count", "metric_correct_overlaps_found",
                  "metric_incorrect_overlaps_made", "details"}

Rng(q) == {q[i] : i \in 1..Len(q)}

\* the list q holds exactly the elements of S, each once
ListsExactly(q, S) == Rng(q) = S /\ Len(q) = Cardinality(S)

\* the unordered pairs of distinct parsed circles, by position
CirclePairs == {p \in (1..Len(circles)) \X (1..Len(circles)) : p[1] < p[2]}

\* the distance between the centres is strictly less than r1 + r2
StrictlyCloser(c1, c2) ==
    LET dx == fsub(c1.cx, c2.cx)
        dy == fsub(c1.cy, c2.cy)
        sum == fadd(c1.r, c2.r)
    IN sum > 0 /\ dx * dx + dy * dy < sum * sum

OverlappingPairs == {p \in CirclePairs : StrictlyCloser(circles[p[1]], circles[p[2]])}

\* the sorted colour pairs of the overlapping circle pairs
Detected ==
    {SortedPair(circles[p[1]].color, circles[p[2]].color) : p \in OverlappingPairs}

\* the required set, lowercased and sorted again
Required == {SortedPair(Lower(p[1]), Lower(p[2])) : p \in required_overlaps}

\* the record the claims describe for the current circles and arguments
MetricsAsClaimed(res) ==
    /\ IsMetrics(res)
    /\ res.metric_circle_count = ratio(Len(circles), Len(all_required_colors))
    /\ res.metric_correct_overlaps_found =
          ratio(Cardinality(Detected \cap Required), Cardinality(Required))
    /\ res.metric_incorrect_overlaps_made = Cardinality(Detected \ Required)
    /\ ListsExactly(res.details.found_pairs, Detected)
    /\ ListsExactly(res.details.missed_pairs, Required \ Detected)
    /\ ListsExactly(res.details.hallucinated_pairs, Detected \ Required)

\* C1 as stated: for every pair of parsed circles, the pair's sorted colour
\* pair is put into detected_overlaps because of that pair iff the distance
\* between the centres is strictly less than r1 + r2.
C1_StrictOverlap ==
    (Done /\ ~parse_error) =>
        \A p \in CirclePairs :
            /\ p \in added <=> StrictlyCloser(circles[p[1]], circles[p[2]])
            /\ p \in added =>
                  SortedPair(circles[p[1]].color, circles[p[2]].color)
                      \in detected_overlaps

\* C1 for the pairs whose distance was computed: it holds of each of them,
\* also in a call that ends by OverflowError.
C1_StrictOverlapWhereCompared ==
    \A k \in 1..Len(compared) :
        LET p == compared[k] IN
        /\ p \in added <=> StrictlyCloser(circles[p[1]], circles[p[2]])
        /\ p \in added =>
              SortedPair(circles[p[1]].color, circles[p[2]].color)
                  \in detected_overlaps

\* two externally tangent circles have been compared and not recorded
C1_TangentSeen ==
    \E k \in 1..Len(compared) :
        LET c1 == circles[compared[k][1]]
            c2 == circles[compared[k][2]]
        IN /\ (c1.cx - c2.cx) * (c1.cx - c2.cx) + (c1.cy - c2.cy) * (c1.cy - c2.cy)
                 = (c1.r + c2.r) * (c1.r + c2.r)
           /\ c1.r + c2.r > 0
           /\ compared[k] \notin added

\* C2 as stated: for every well-formed document and every required set,
\* check_overlaps returns the metrics record with the correct-overlap ratio,
\* the incorrect-overlap count, the three pair lists and the circle count.
C2_Metrics ==
    (Done /\ ~parse_error) => (pc = "returned" /\ MetricsAsClaimed(result))

\* C2 for the calls that return.
C2_MetricsWhenReturned ==
    (pc = "returned" /\ ~parse_error) => MetricsAsClaimed(result)

\* the scenario of the claim: one required pair found, one overlap hallucinated,
\* nothing missed
C2_ScenarioSeen ==
    /\ pc = "returned"
    /\ IsMetrics(result)
    /\ result.metric_correct_overlaps_found = "1/1"
    /\ result.metric_incorrect_overlaps_made = 1
    /\ result.details.missed_pairs = <<>>

\* the text is well-formed markup
WellFormed(s) == findall_circle(s) # ParseError

\* C4 as stated, for the text handed to the parser: text that is not
\* well-formed sets parse_error, leaves the circle list empty and makes
\* check_overlaps return exactly the error record; for well-formed text
\* parse_error stays false and the full metrics record is returned.
C4_InvalidXml ==
    /\ pc \in {"ready", "loop", "returned", "raised"} =>
          /\ parse_error <=> ~WellFormed(svg_text)
          /\ parse_error => circles = <<>>
    /\ Done =>
          IF WellFormed(svg_text)
          THEN pc = "returned" /\ IsMetrics(result)
          ELSE pc = "returned" /\ result = InvalidSvg

\* C4 without the promise that a record is returned for well-formed text.
C4_InvalidXmlWhenReturned ==
    /\ pc \in {"ready", "loop", "returned", "raised"} =>
          /\ parse_error <=> ~WellFormed(svg_text)
          /\ parse_error => circles = <<>>
    /\ pc = "returned" =>
          IF WellFormed(svg_text) THEN IsMetrics(result) ELSE result = InvalidSvg

\* text that is not well-formed has been scored with the error record
C4_ErrorSeen ==
    /\ pc = "returned"
    /\ ~WellFormed(svg_text)
    /\ parse_error
    /\ circles = <<>>
    /\ result = InvalidSvg

\* a step of check_overlaps leaves the parsed circles and parse_error alone
CallKeepsParse ==
    pc \in {"ready", "loop", "returned", "raised"} =>
        (circles' = circles /\ parse_error' = parse_error)

C9_EachPairOnce ==
    (Done /\ ~parse_error) =>
        /\ 2 * Len(examined) = Len(circles) * (Len(circles) - 1)
        /\ Rng(examined) = CirclePairs
        /\ \A k, m \in 1..Len(examined) : examined[k] = examined[m] => k = m
        /\ IsMetrics(result)
        /\ ListsExactly(result.details.found_pairs, Detected)
        /\ result.metric_correct_overlaps_found =
              ratio(Cardinality(Detected \cap Required), Cardinality(Required))
        /\ result.metric_incorrect_overlaps_made = Cardinality(Detected \ Required)

\* C9 for the calls that return; during any call no pair is taken twice, with
\* itself or in both orders.
C9_EachPairOnceWhenReturned ==
    /\ Rng(examined) \subseteq CirclePairs
    /\ \A k, m \in 1..Len(examined) : examined[k] = examined[m] => k = m
    /\ (pc = "returned" /\ ~parse_error) =>
        /\ 2 * Len(examined) = Len(circles) * (Len(circles) - 1)
        /\ Rng(examined) = CirclePairs
        /\ ListsExactly(result.details.found_pairs, Detected)
        /\ result.metric_correct_overlaps_found =
              ratio(Cardinality(Detected \cap Required), Cardinality(Required))
        /\ result.metric_incorrect_overlaps_made = Cardinality(Detected \ Required)

\* two different circle pairs overlap with the same colour pair
C9_SameColourTwice ==
    /\ pc = "returned"
    /\ \E p, q \in OverlappingPairs :
          /\ p # q
          /\ SortedPair(circles[p[1]].color, circles[p[2]].color)
                = SortedPair(circles[q[1]].color, circles[q[2]].color)

\* C10 as stated: two distinct parsed circles of the same colour c that
\* overlap add (c, c) to detected_overlaps; unless (c, c) is required it is
\* listed as hallucinated and counts one in metric_incorrect_overlaps_made;
\* the circle-count numerator is the number of parsed circles.
C10_SameColourPair ==
    (Done /\ ~parse_error) =>
        \A p \in OverlappingPairs :
            circles[p[1]].color = circles[p[2]].color =>
                LET cc == <<circles[p[1]].color, circles[p[1]].color>> IN
                /\ cc \in detected_overlaps
                /\ IsMetrics(result)
                /\ cc \in Rng(result.details.found_pairs)
                /\ result.metric_circle_count =
                      ratio(Len(circles), Len(all_required_colors))
                /\ cc \notin Required =>
                      /\ cc \in Rng(result.details.hallucinated_pairs)
                      /\ result.metric_incorrect_overlaps_made =
                            Cardinality((Detected \ {cc}) \ Required) + 1

\* C10 for the calls that return.
C10_SameColourPairWhenReturned ==
    (pc = "returned" /\ ~parse_error) =>
        \A p \in OverlappingPairs :
            circles[p[1]].color = circles[p[2]].color =>
                LET cc == <<circles[p[1]].color, circles[p[1]].color>> IN
                /\ cc \in detected_overlaps
                /\ cc \in Rng(result.details.found_pairs)
                /\ result.metric_circle_count =
                      ratio(Len(circles), Len(all_required_colors))
                /\ cc \notin Required =>
                      /\ cc \in Rng(result.details.hallucinated_pairs)
                      /\ result.metric_incorrect_overlaps_made =
                            Cardinality((Detected \ {cc}) \ Required) + 1

\* a same-colour overlap reported as hallucinated, with more circles parsed
\* than colours expected
C10_Seen ==
    /\ pc = "returned"
    /\ Len(circles) > Len(all_required_colors)
    /\ \E p \in OverlappingPairs :
          /\ circles[p[1]].color = circles[p[2]].color
          /\ <<circles[p[1]].color, circles[p[1]].color>>
                \in Rng(result.details.hallucinated_pairs)

\* C6: OverlapTask(n, pairs) fails with ValueError whenever n is above the
\* palette size, and for every count 0 <= n <= palette size it succeeds with
\* circles of length n, the first n palette colours in palette order.
C6_PaletteLimit ==
    pc # "start" =>
        /\ num_circles > 6 => (pc = "config_error" /\ task = Raised("ValueError"))
        /\ (0 <= num_circles /\ num_circles <= 6) =>
              /\ pc = "task"
              /\ Len(task.circles) = num_circles
              /\ \A i \in 1..num_circles :
                    task.circles[i] = <<Red, Blue, Green, Yellow, Purple, Orange>>[i]

\* a task with exactly as many circles as the palette has colours
C6_Witness == pc = "task" /\ num_circles = 6 /\ Len(task.circles) = 6

\* the circle elements findall yields for the text handed to the parser
FoundElements == findall_circle(strip_xmlns(svg_text))

\* float() rejects one of the element's cx, cy, r
NotNumeric(t) ==
    \/ raises_ValueError(t.cx)
    \/ raises_ValueError(t.cy)
    \/ raises_ValueError(t.r)

Numeric(t) == ~NotNumeric(t)

\* the text without its circle elements that have a non-numeric attribute
KeepToken(t) == t.k # "circle" \/ Numeric(t)

WithoutMalformed(s) == SelectSeq(s, KeepToken)

\* C5: in a well-formed document a circle element with a non-numeric cx, cy
\* or r is dropped without setting parse_error, and the circle list is the
\* one parsed from the same document with the malformed elements removed;
\* an absent cx, cy or r is read as 0 and an absent fill as black.
C5_SkipMalformed ==
    (pc = "ready" /\ WellFormed(svg_text)) =>
        LET kept == SelectSeq(FoundElements, Numeric) IN
        /\ ~parse_error
        /\ circles = parse_svg(WithoutMalformed(svg_text)).circles
        /\ Len(circles) = Len(kept)
        /\ \A k \in 1..Len(kept) :
              /\ kept[k].cx = <<>> => circles[k].cx = 0
              /\ kept[k].cy = <<>> => circles[k].cy = 0
              /\ kept[k].r = <<>> => circles[k].r = 0
              /\ kept[k].fill = <<>> => circles[k].color = black
              /\ kept[k].cx # <<>> => circles[k].cx = float(kept[k].cx[1])
              /\ kept[k].cy # <<>> => circles[k].cy = float(kept[k].cy[1])
              /\ kept[k].r # <<>> => circles[k].r = float(kept[k].r[1])
              /\ kept[k].fill # <<>> => circles[k].color = Lower(kept[k].fill[1])

\* a malformed circle between two parsed ones, one of them without attributes
C5_Witness ==
    /\ pc = "ready"
    /\ ~parse_error
    /\ Len(circles) = 2
    /\ Len(FoundElements) = 3
    /\ NotNumeric(FoundElements[2])
    /\ circles[2] = [color |-> black, cx |-> 0, cy |-> 0, r |-> 0]

\* the fill attribute of the i-th parsed circle as written in the document,
\* when every circle element found was parsed
RawFill(i) ==
    IF FoundElements[i].fill = <<>> THEN black ELSE FoundElements[i].fill[1]

\* a pair of colours without order and case
Unordered(a, b) == {Lower(a), Lower(b)}

RequiredUnordered == {Unordered(overlaps_arg[i][1], overlaps_arg[i][2]) : i \in 1..Len(overlaps_arg)}

DetectedUnordered == {Unordered(RawFill(p[1]), RawFill(p[2])) : p \in OverlappingPairs}

PairsOf(q) == {{q[i][1], q[i][2]} : i \in 1..Len(q)}

\* C3: the result depends on the required pairs and on the fills of the
\* overlapping circles only as unordered pairs of case-folded colours, so
\* swapping or re-casing a required pair, swapping the circles or re-casing
\* a fill changes nothing; and the pairs given to OverlapTask in either
\* order are one entry of overlaps_needed.
C3_Symmetric ==
    /\ pc \in {"task", "ready", "loop", "returned", "raised"} =>
          Cardinality(task.overlaps_needed) =
              Cardinality({{overlaps_arg[i][1], overlaps_arg[i][2]} : i \in 1..Len(overlaps_arg)})
    /\ (pc = "returned" /\ ~parse_error /\ Len(FoundElements) = Len(circles)) =>
          /\ result.metric_correct_overlaps_found =
                ratio(Cardinality(DetectedUnordered \cap RequiredUnordered),
                      Cardinality(RequiredUnordered))
          /\ result.metric_incorrect_overlaps_made =
                Cardinality(DetectedUnordered \ RequiredUnordered)
          /\ PairsOf(result.details.found_pairs) = DetectedUnordered
          /\ Len(result.details.found_pairs) = Cardinality(DetectedUnordered)
          /\ PairsOf(result.details.missed_pairs) = RequiredUnordered \ DetectedUnordered
          /\ Len(result.details.missed_pairs) =
                Cardinality(RequiredUnordered \ DetectedUnordered)
          /\ PairsOf(result.details.hallucinated_pairs) =
                DetectedUnordered \ RequiredUnordered
          /\ Len(result.details.hallucinated_pairs) =
                Cardinality(DetectedUnordered \ RequiredUnordered)

\* a required pair given twice, in a spelling that is neither sorted nor
\* lower case, is found once by an overlap drawn in the other order
C3_Witness ==
    /\ pc = "returned"
    /\ Len(overlaps_arg) = 2
    /\ overlaps_arg[1] # overlaps_arg[2]
    /\ overlaps_arg[1] # SortedPair(Lower(overlaps_arg[1][1]), Lower(overlaps_arg[1][2]))
    /\ Len(circles) = 2
    /\ StrLess(Lower(RawFill(2)), Lower(RawFill(1)))
    /\ result.metric_correct_overlaps_found = "1/1"

====
